---- MODULE Spec2Model ----
(***************************************************************************)
(* State-machine model of the local snowflake ID generator                 *)
(* (src/src/snowflake.rs): the generator struct, the lock-free next_id     *)
(* loop at the granularity of its atomic operations, next_ids, and the     *)
(* compose_id / decompose bit layout.                                      *)
(*                                                                         *)
(* Integers are unbounded in the model; every value the bounds below allow *)
(* is far below 2^63, so i64 arithmetic never wraps in the modelled range. *)
(***************************************************************************)
EXTENDS Integers, Sequences, FiniteSets, TLC

\* ------------------------------------------------------------------ bounds
\* Constructor arguments of the modelled generator.
Epoch == 2
WorkerBits == 2
SeqBits == 1
\* The clock reports Epoch+1 .. Epoch+MaxTicks (or a time before 1970).
MaxTicks == 2
\* Total number of next_id invocations in one behaviour.
MaxCalls == 4
\* Largest count passed to next_ids.
MaxCount == 2
\* The sequence cell is followed up to max_sequence + 1 + MaxOverrun.
MaxOverrun == 1
\* Total number of next_id invocations in one behaviour of SpecAdvancing.
LiveCalls == 4
\* The advancing clock of SpecAdvancing reports Epoch+1 .. Epoch+LiveTicks, and
\* beyond that the millisecond a spinning caller is waiting for.
LiveTicks == 2
\* Total number of next_id invocations in one behaviour of SpecPair.
PairCalls == 3
\* Total number of next_id invocations in one behaviour of SpecReading.
ReadCalls == 2

Threads == {"t1", "t2"}

VARIABLES
    gen,         \* the SnowflakeGenerator struct
    now,         \* the value SystemTime::now() reported last, in ms since UNIX_EPOCH
    regressed,   \* history: the clock has reported less than it had reported before
    pc,          \* per thread: position in next_ids / next_id
    kind,        \* per thread: the entry point called, "next_id" or "next_ids"
    count,       \* per thread: next_ids' argument
    ids,         \* per thread: next_ids' local Vec
    timestamp,   \* per thread: next_id's local `timestamp`
    last_ts,     \* per thread: next_id's local `last_ts`
    current_ts,  \* per thread: wait_next_millis' argument (0: this call never waited)
    ret,         \* per thread: what the latest next_id invocation returned
    result,      \* per thread: what the latest entry-point call returned
    floor,       \* history, per thread: greatest ID issued before this next_id began
    entry,       \* history, per thread: <<last_timestamp, sequence>> at next_id entry
    issued,      \* history: every (id, timestamp, sequence) next_id returned,
                 \* with the worker_id of the instance that returned it
    collision,   \* history: some next_id returned an ID already issued
    calls,       \* number of next_id invocations budgeted so far
    probe        \* a compose_id / decompose evaluation on its own (SpecCodec);
                 \* the second generator instance (SpecPair)

locals == <<timestamp, last_ts, current_ts>>
api    == <<kind, count, ids, result>>
hist   == <<floor, entry, issued, collision>>
clock  == <<now, regressed>>
vars   == <<gen, now, regressed, pc, kind, count, ids, timestamp, last_ts,
            current_ts, ret, result, floor, entry, issued, collision, calls,
            probe>>

\* ------------------------------------------------------- i64 bit operators
RECURSIVE Pow2(_)
Pow2(n) == IF n = 0 THEN 1 ELSE 2 * Pow2(n - 1)

\* x << n
Shl(x, n) == x * Pow2(n)

\* x >> n (arithmetic: rounds towards minus infinity)
Shr(x, n) == x \div Pow2(n)

\* a | b on two's-complement integers
RECURSIVE BitOr(_, _)
BitOr(a, b) ==
    IF a = 0 THEN b
    ELSE IF b = 0 THEN a
    ELSE IF a = -1 \/ b = -1 THEN -1
    ELSE (IF a % 2 = 1 \/ b % 2 = 1 THEN 1 ELSE 0)
         + 2 * BitOr(a \div 2, b \div 2)

\* a & b on two's-complement integers
RECURSIVE BitAnd(_, _)
BitAnd(a, b) ==
    IF a = 0 \/ b = 0 THEN 0
    ELSE IF a = -1 THEN b
    ELSE IF b = -1 THEN a
    ELSE (IF a % 2 = 1 /\ b % 2 = 1 THEN 1 ELSE 0)
         + 2 * BitAnd(a \div 2, b \div 2)

\* ------------------------------------------------------------ the generator
\* Mutant of new: max_sequence is 2^sequence_bits, one more than the field
\* holds.
new_max_sequence_unreduced(worker_id, epoch, worker_bits, sequence_bits) ==
    [ epoch          |-> epoch,
      worker_id      |-> worker_id,
      worker_bits    |-> worker_bits,
      sequence_bits  |-> sequence_bits,
      max_sequence   |-> Shl(1, sequence_bits),
      sequence       |-> 0,
      last_timestamp |-> 0 ]

\* SnowflakeGenerator::new
new(worker_id, epoch, worker_bits, sequence_bits) ==
    [ epoch          |-> epoch,
      worker_id      |-> worker_id,
      worker_bits    |-> worker_bits,
      sequence_bits  |-> sequence_bits,
      max_sequence   |-> Shl(1, sequence_bits) - 1,
      sequence       |-> 0,
      last_timestamp |-> 0 ]

\* Mutant of compose_id: the epoch is not subtracted from the timestamp.
compose_id_raw_timestamp(self, ts, sequence) ==
    LET ts_shift     == self.worker_bits + self.sequence_bits
        worker_shift == self.sequence_bits
    IN  BitOr(BitOr(Shl(ts, ts_shift),
                    Shl(self.worker_id, worker_shift)),
              sequence)

\* Mutant of compose_id: the timestamp delta is not shifted above the other
\* two fields.
compose_id_unshifted_timestamp(self, ts, sequence) ==
    LET worker_shift == self.sequence_bits
    IN  BitOr(BitOr(ts - self.epoch,
                    Shl(self.worker_id, worker_shift)),
              sequence)

\* Mutant of compose_id: the worker_id is masked to worker_bits.
compose_id_masked_worker(self, ts, sequence) ==
    LET ts_shift     == self.worker_bits + self.sequence_bits
        worker_shift == self.sequence_bits
        worker_mask  == Shl(1, self.worker_bits) - 1
    IN  BitOr(BitOr(Shl(ts - self.epoch, ts_shift),
                    Shl(BitAnd(self.worker_id, worker_mask), worker_shift)),
              sequence)

\* Mutant of compose_id: the worker_id is left out of the ID.
compose_id_without_worker(self, ts, sequence) ==
    LET ts_shift     == self.worker_bits + self.sequence_bits
    IN  BitOr(Shl(ts - self.epoch, ts_shift), sequence)

\* SnowflakeGenerator::compose_id
compose_id(self, ts, sequence) ==
    LET ts_shift     == self.worker_bits + self.sequence_bits
        worker_shift == self.sequence_bits
    IN  BitOr(BitOr(Shl(ts - self.epoch, ts_shift),
                    Shl(self.worker_id, worker_shift)),
              sequence)

\* SnowflakeGenerator::decompose
decompose(self, id) ==
    LET worker_shift  == self.sequence_bits
        ts_shift      == self.worker_bits + self.sequence_bits
        sequence_mask == Shl(1, self.sequence_bits) - 1
        worker_mask   == Shl(1, self.worker_bits) - 1
    IN  << Shr(id, ts_shift) + self.epoch,
           BitAnd(Shr(id, worker_shift), worker_mask),
           BitAnd(id, sequence_mask) >>

\* Mutant of worker_id: the accessor reads the sequence counter.
worker_id_of_sequence(self) == self.sequence

\* SnowflakeGenerator::worker_id
worker_id(self) == self.worker_id

\* SnowflakeGenerator::epoch
epoch(self) == self.epoch

\* ---------------------------------------------------------------- the clock
\* What SystemTime::now() can report to the generator: a millisecond after
\* the generator's epoch, or a time before UNIX_EPOCH (-1), for which
\* duration_since fails.  Every read of the clock draws its value here; `now`
\* keeps the last value reported (Epoch + 1 before the first read).
ClockValues == {-1} \cup ((Epoch + 1)..(Epoch + MaxTicks))

\* The error kinds of the SDK that name the snowflake generator (error.rs).
ClockMovedBackwards == "ClockMovedBackwards"
SequenceOverflow    == "SequenceOverflow"

\* SnowflakeGenerator::current_timestamp, when SystemTime::now() is v: a time
\* before UNIX_EPOCH is mapped to ClockMovedBackwards (line 183).
current_timestamp(v) ==
    IF v < 0 THEN [tag |-> "Err", ts |-> 0, error |-> ClockMovedBackwards]
    ELSE [tag |-> "Ok", ts |-> v]

\* The clock is read and reports v: forwards or backwards of its last report.
Report(v) ==
    /\ now' = v
    /\ regressed' = (regressed \/ v < now)

\* ------------------------------------------------------------ result values
NoRet       == [tag |-> "None", id |-> 0]
OkRet(id)   == [tag |-> "Ok", id |-> id]
ErrRet      == [tag |-> "Err", id |-> 0, error |-> ClockMovedBackwards]

NoResult      == [tag |-> "None", ids |-> <<>>]
OkResult(v)   == [tag |-> "Ok", ids |-> v]
ErrResult     == [tag |-> "Err", ids |-> <<>>, error |-> ClockMovedBackwards]

IssuedIds == {r.id : r \in issued}

RECURSIVE SetMax(_)
SetMax(S) ==
    IF S = {} THEN 0
    ELSE LET x == CHOOSE y \in S : TRUE
             m == SetMax(S \ {x})
         IN  IF x > m THEN x ELSE m

NoProbe == [tag |-> "None"]

\* The state the callers, the clock and the history start in.
InitCallers ==
    /\ now = Epoch + 1
    /\ regressed = FALSE
    /\ pc = [t \in Threads |-> "idle"]
    /\ kind = [t \in Threads |-> "next_id"]
    /\ count = [t \in Threads |-> 0]
    /\ ids = [t \in Threads |-> <<>>]
    /\ timestamp = [t \in Threads |-> 0]
    /\ last_ts = [t \in Threads |-> 0]
    /\ current_ts = [t \in Threads |-> 0]
    /\ ret = [t \in Threads |-> NoRet]
    /\ result = [t \in Threads |-> NoResult]
    /\ floor = [t \in Threads |-> 0]
    /\ entry = [t \in Threads |-> <<0, 0>>]
    /\ issued = {}
    /\ collision = FALSE
    /\ calls = 0

\* ------------------------------------------------------------------ Init
\* A generator fresh from new(), not called yet.
Init ==
    /\ gen = new(Pow2(WorkerBits) - 1, Epoch, WorkerBits, SeqBits)
    /\ InitCallers
    /\ probe = NoProbe

\* --------------------------------------------------------- next_id's frame
\* Control enters next_id (line 86): fresh locals, and the history variables
\* take their snapshot of what was true at the invocation.
Enter(t) ==
    /\ pc' = [pc EXCEPT ![t] = "clock"]
    /\ timestamp' = [timestamp EXCEPT ![t] = 0]
    /\ last_ts' = [last_ts EXCEPT ![t] = 0]
    /\ current_ts' = [current_ts EXCEPT ![t] = 0]
    /\ ret' = [ret EXCEPT ![t] = NoRet]
    /\ floor' = [floor EXCEPT ![t] = SetMax(IssuedIds)]
    /\ entry' = [entry EXCEPT ![t] = <<gen.last_timestamp, gen.sequence>>]

\* The frame of next_id is popped: the snapshots of the invocation end with it.
Leave(t) ==
    /\ floor' = [floor EXCEPT ![t] = 0]
    /\ entry' = [entry EXCEPT ![t] = <<0, 0>>]

\* The entry point returns Ok: its frame is popped, its argument ends with it.
EndCall(t) ==
    /\ kind' = [kind EXCEPT ![t] = "next_id"]
    /\ count' = [count EXCEPT ![t] = 0]

\* next_id returns Ok(compose_id(ts, seq)) to its caller: the direct caller,
\* or next_ids' loop, which pushes the ID (line 133).
ReturnOk(t, ts, seq) ==
    LET id == compose_id(gen, ts, seq) IN
    /\ ret' = [ret EXCEPT ![t] = OkRet(id)]
    /\ issued' = issued \cup {[id |-> id, timestamp |-> ts, sequence |-> seq,
                               worker |-> gen.worker_id]}
    /\ collision' = (collision \/ id \in IssuedIds)
    /\ timestamp' = [timestamp EXCEPT ![t] = 0]
    /\ last_ts' = [last_ts EXCEPT ![t] = 0]
    /\ UNCHANGED current_ts
    /\ Leave(t)
    /\ IF kind[t] = "next_id"
       THEN /\ pc' = [pc EXCEPT ![t] = "idle"]
            /\ result' = [result EXCEPT ![t] = OkResult(<<id>>)]
            /\ UNCHANGED <<ids, kind, count>>
       ELSE /\ pc' = [pc EXCEPT ![t] = "loop"]
            /\ ids' = [ids EXCEPT ![t] = Append(@, id)]
            /\ UNCHANGED <<result, kind, count>>

\* Mutant of ReturnErr: next_ids hands out the IDs it has collected so far
\* instead of the error.
ReturnErr_partial(t, e) ==
    /\ ret' = [ret EXCEPT ![t] = [ErrRet EXCEPT !.error = e]]
    /\ pc' = [pc EXCEPT ![t] = "idle"]
    /\ result' = [result EXCEPT ![t] =
                     IF kind[t] = "next_ids" /\ ids[t] # <<>>
                     THEN OkResult(ids[t])
                     ELSE [ErrResult EXCEPT !.error = e]]
    /\ ids' = [ids EXCEPT ![t] = <<>>]
    /\ Leave(t)
    /\ UNCHANGED <<kind, count, issued, collision>>

\* next_id returns Err(e); next_ids passes it on with `?` and drops its Vec.
\* The locals and the arguments keep the values the call failed with.
ReturnErr(t, e) ==
    /\ ret' = [ret EXCEPT ![t] = [ErrRet EXCEPT !.error = e]]
    /\ pc' = [pc EXCEPT ![t] = "idle"]
    /\ result' = [result EXCEPT ![t] = [ErrResult EXCEPT !.error = e]]
    /\ ids' = [ids EXCEPT ![t] = <<>>]
    /\ Leave(t)
    /\ UNCHANGED <<kind, count, issued, collision>>

\* ------------------------------------------------------------- entry points
\* A caller invokes next_id().
CallNextId(t) ==
    /\ pc[t] = "idle"
    /\ calls < MaxCalls
    /\ calls' = calls + 1
    /\ kind' = [kind EXCEPT ![t] = "next_id"]
    /\ count' = [count EXCEPT ![t] = 0]
    /\ ids' = [ids EXCEPT ![t] = <<>>]
    /\ result' = [result EXCEPT ![t] = NoResult]
    /\ Enter(t)
    /\ UNCHANGED <<gen, clock, issued, collision, probe>>

\* Mutant of CallNextIds: next_ids(n) reserves its block at once, moving the
\* sequence forward by n.
CallNextIds_reserving(t) ==
    /\ pc[t] = "idle"
    /\ \E n \in 0..MaxCount :
          /\ calls + n <= MaxCalls
          /\ calls' = calls + n
          /\ count' = [count EXCEPT ![t] = n]
          /\ gen' = [gen EXCEPT !.sequence = @ + n]
    /\ kind' = [kind EXCEPT ![t] = "next_ids"]
    /\ ids' = [ids EXCEPT ![t] = <<>>]
    /\ result' = [result EXCEPT ![t] = NoResult]
    /\ pc' = [pc EXCEPT ![t] = "loop"]
    /\ UNCHANGED <<clock, locals, ret, hist, probe>>

\* A caller invokes next_ids(n): the Vec is created (line 131).
CallNextIds(t) ==
    /\ pc[t] = "idle"
    /\ \E n \in 0..MaxCount :
          /\ calls + n <= MaxCalls
          /\ calls' = calls + n
          /\ count' = [count EXCEPT ![t] = n]
    /\ kind' = [kind EXCEPT ![t] = "next_ids"]
    /\ ids' = [ids EXCEPT ![t] = <<>>]
    /\ result' = [result EXCEPT ![t] = NoResult]
    /\ pc' = [pc EXCEPT ![t] = "loop"]
    /\ UNCHANGED <<gen, clock, locals, ret, hist, probe>>

\* next_ids' for loop (lines 132-135): the next iteration calls next_id, or
\* the loop is over and the Vec is moved out as Ok(ids).
NextIdsLoop(t) ==
    /\ pc[t] = "loop"
    /\ IF Len(ids[t]) < count[t]
       THEN /\ Enter(t)
            /\ UNCHANGED <<result, ids, kind, count>>
       ELSE /\ pc' = [pc EXCEPT ![t] = "idle"]
            /\ result' = [result EXCEPT ![t] = OkResult(ids[t])]
            /\ ids' = [ids EXCEPT ![t] = <<>>]
            /\ EndCall(t)
            /\ UNCHANGED <<locals, ret, floor, entry>>
    /\ UNCHANGED <<gen, clock, issued, collision, calls, probe>>

\* ------------------------------------------------------------ next_id's loop
\* Line 88: let timestamp = Self::current_timestamp()?;
ReadClock(t) ==
    /\ pc[t] = "clock"
    /\ \E v \in ClockValues :
          /\ Report(v)
          /\ IF current_timestamp(v).tag = "Err"
             THEN /\ ReturnErr(t, current_timestamp(v).error)
                  /\ UNCHANGED timestamp
             ELSE /\ timestamp' = [timestamp EXCEPT ![t] = current_timestamp(v).ts]
                  /\ pc' = [pc EXCEPT ![t] = "load"]
                  /\ UNCHANGED <<ret, api, hist>>
    /\ UNCHANGED <<gen, last_ts, current_ts, calls, probe>>

\* Mutant of LoadLastTimestamp: a clock behind last_timestamp makes the call
\* start over instead of failing.
LoadLastTimestamp_retry(t) ==
    /\ pc[t] = "load"
    /\ last_ts' = [last_ts EXCEPT ![t] = gen.last_timestamp]
    /\ pc' = [pc EXCEPT ![t] =
                 IF timestamp[t] < gen.last_timestamp THEN "clock"
                 ELSE IF timestamp[t] = gen.last_timestamp
                 THEN "fetch_add" ELSE "cas"]
    /\ UNCHANGED <<gen, clock, timestamp, current_ts, ret, api, hist, calls, probe>>

\* Lines 89-95, 107: the acquire load of last_timestamp and the branch on it.
LoadLastTimestamp(t) ==
    /\ pc[t] = "load"
    /\ last_ts' = [last_ts EXCEPT ![t] = gen.last_timestamp]
    /\ IF timestamp[t] < gen.last_timestamp
       THEN ReturnErr(t, ClockMovedBackwards)
       ELSE /\ pc' = [pc EXCEPT ![t] =
                        IF timestamp[t] = gen.last_timestamp
                        THEN "fetch_add" ELSE "cas"]
            /\ UNCHANGED <<ret, api, hist>>
    /\ UNCHANGED <<gen, clock, timestamp, current_ts, calls, probe>>

\* Mutant of FetchAddSequence: the fetched value is tested with one value too
\* many let through (seq <= max_sequence + 1).
FetchAddSequence_off_by_one(t) ==
    /\ pc[t] = "fetch_add"
    /\ gen.sequence <= gen.max_sequence + MaxOverrun
    /\ gen' = [gen EXCEPT !.sequence = @ + 1]
    /\ IF gen.sequence <= gen.max_sequence + 1
       THEN ReturnOk(t, timestamp[t], gen.sequence)
       ELSE /\ pc' = [pc EXCEPT ![t] = "wait"]
            /\ current_ts' = [current_ts EXCEPT ![t] = timestamp[t]]
            /\ UNCHANGED <<timestamp, last_ts, ret, api, hist>>
    /\ UNCHANGED <<clock, calls, probe>>

\* Mutant of FetchAddSequence: a fetched value above max_sequence fails the
\* call with SequenceOverflow.
FetchAddSequence_overflow_error(t) ==
    /\ pc[t] = "fetch_add"
    /\ gen.sequence <= gen.max_sequence + MaxOverrun
    /\ gen' = [gen EXCEPT !.sequence = @ + 1]
    /\ IF gen.sequence <= gen.max_sequence
       THEN ReturnOk(t, timestamp[t], gen.sequence)
       ELSE /\ ReturnErr(t, SequenceOverflow)
            /\ UNCHANGED <<timestamp, last_ts, current_ts>>
    /\ UNCHANGED <<clock, calls, probe>>

\* Lines 97-103: sequence.fetch_add(1), and the test of the value it returned.
FetchAddSequence(t) ==
    /\ pc[t] = "fetch_add"
    /\ gen.sequence <= gen.max_sequence + MaxOverrun
    /\ gen' = [gen EXCEPT !.sequence = @ + 1]
    /\ IF gen.sequence <= gen.max_sequence
       THEN ReturnOk(t, timestamp[t], gen.sequence)
       ELSE /\ pc' = [pc EXCEPT ![t] = "wait"]
            /\ current_ts' = [current_ts EXCEPT ![t] = timestamp[t]]
            /\ UNCHANGED <<timestamp, last_ts, ret, api, hist>>
    /\ UNCHANGED <<clock, calls, probe>>

\* Lines 186-194 and 103-104: one iteration of wait_next_millis' loop; its
\* error is passed on with `?`, its Ok value is dropped and the loop of
\* next_id continues (current_ts is kept: the call has waited for it).
WaitNextMillis(t) ==
    /\ pc[t] = "wait"
    /\ \E v \in ClockValues :
          /\ Report(v)
          /\ IF current_timestamp(v).tag = "Err"
             THEN /\ ReturnErr(t, current_timestamp(v).error)
                  /\ UNCHANGED <<timestamp, last_ts>>
             ELSE /\ IF current_timestamp(v).ts > current_ts[t]
                     THEN /\ pc' = [pc EXCEPT ![t] = "clock"]
                          /\ timestamp' = [timestamp EXCEPT ![t] = 0]
                          /\ last_ts' = [last_ts EXCEPT ![t] = 0]
                     ELSE UNCHANGED <<pc, timestamp, last_ts>>
                  /\ UNCHANGED <<ret, api, hist>>
    /\ UNCHANGED <<gen, current_ts, calls, probe>>

\* Mutant of CompareExchange: the outcome of the exchange is not tested, the
\* call goes on to store 1 and return in either case.
CompareExchange_always_ok(t) ==
    /\ pc[t] = "cas"
    /\ gen' = IF gen.last_timestamp = last_ts[t]
              THEN [gen EXCEPT !.last_timestamp = timestamp[t]]
              ELSE gen
    /\ pc' = [pc EXCEPT ![t] = "store"]
    /\ UNCHANGED <<clock, locals, api, ret, hist, calls, probe>>

\* Mutant of CompareExchange: last_timestamp is written without comparing.
CompareExchange_unconditional(t) ==
    /\ pc[t] = "cas"
    /\ gen' = [gen EXCEPT !.last_timestamp = timestamp[t]]
    /\ pc' = [pc EXCEPT ![t] = "store"]
    /\ UNCHANGED <<clock, locals, api, ret, hist, calls, probe>>

\* Mutant of CompareExchange: a successful exchange resets the sequence
\* together with the timestamp.
CompareExchange_resetting(t) ==
    /\ pc[t] = "cas"
    /\ IF gen.last_timestamp = last_ts[t]
       THEN /\ gen' = [gen EXCEPT !.last_timestamp = timestamp[t],
                                  !.sequence = 0]
            /\ pc' = [pc EXCEPT ![t] = "store"]
            /\ UNCHANGED <<timestamp, last_ts>>
       ELSE /\ gen' = gen
            /\ pc' = [pc EXCEPT ![t] = "clock"]
            /\ timestamp' = [timestamp EXCEPT ![t] = 0]
            /\ last_ts' = [last_ts EXCEPT ![t] = 0]
    /\ UNCHANGED <<clock, current_ts, api, ret, hist, calls, probe>>

\* Lines 108-111, 117: compare_exchange(last_ts, timestamp) on last_timestamp.
CompareExchange(t) ==
    /\ pc[t] = "cas"
    /\ IF gen.last_timestamp = last_ts[t]
       THEN /\ gen' = [gen EXCEPT !.last_timestamp = timestamp[t]]
            /\ pc' = [pc EXCEPT ![t] = "store"]
            /\ UNCHANGED <<timestamp, last_ts>>
       ELSE /\ gen' = gen
            /\ pc' = [pc EXCEPT ![t] = "clock"]
            /\ timestamp' = [timestamp EXCEPT ![t] = 0]
            /\ last_ts' = [last_ts EXCEPT ![t] = 0]
    /\ UNCHANGED <<clock, current_ts, api, ret, hist, calls, probe>>

\* Mutant of StoreSequence: the counter is reset to 0, the value just handed
\* out, instead of 1.
StoreSequence_reset_to_zero(t) ==
    /\ pc[t] = "store"
    /\ gen' = [gen EXCEPT !.sequence = 0]
    /\ ReturnOk(t, timestamp[t], 0)
    /\ UNCHANGED <<clock, calls, probe>>

\* Lines 113-114: sequence.store(1) and return of the ID for sequence 0.
StoreSequence(t) ==
    /\ pc[t] = "store"
    /\ gen' = [gen EXCEPT !.sequence = 1]
    /\ ReturnOk(t, timestamp[t], 0)
    /\ UNCHANGED <<clock, calls, probe>>

Next ==
    \E t \in Threads :
        \/ CallNextId(t)
        \/ CallNextIds(t)
        \/ NextIdsLoop(t)
        \/ ReadClock(t)
        \/ LoadLastTimestamp(t)
        \/ FetchAddSequence(t)
        \/ WaitNextMillis(t)
        \/ CompareExchange(t)
        \/ StoreSequence(t)

Spec == Init /\ [][Next]_vars

\* ------------------------------------------- under a clock that keeps advancing
\* What SystemTime::now() can report when it never steps back: its last report
\* again, a later millisecond of the modelled range, or (to a caller spinning
\* in wait_next_millis(least - 1)) the millisecond it is waiting for.
AdvancingValues(least) ==
    {v \in ((Epoch + 1)..(Epoch + LiveTicks)) \cup {now, least} : v >= now}

\* Line 88 under the advancing clock.
ReadClockAdvancing(t) ==
    /\ pc[t] = "clock"
    /\ \E v \in AdvancingValues(now) :
          /\ Report(v)
          /\ IF current_timestamp(v).tag = "Err"
             THEN /\ ReturnErr(t, current_timestamp(v).error)
                  /\ UNCHANGED timestamp
             ELSE /\ timestamp' = [timestamp EXCEPT ![t] = current_timestamp(v).ts]
                  /\ pc' = [pc EXCEPT ![t] = "load"]
                  /\ UNCHANGED <<ret, api, hist>>
    /\ UNCHANGED <<gen, last_ts, current_ts, calls, probe>>

\* Mutant of WaitNextMillisAdvancing: the loop ends on a clock value below
\* current_ts instead of above it.
WaitNextMillisAdvancing_earlier(t) ==
    /\ pc[t] = "wait"
    /\ \E v \in AdvancingValues(current_ts[t] + 1) :
          /\ Report(v)
          /\ IF current_timestamp(v).tag = "Err"
             THEN /\ ReturnErr(t, current_timestamp(v).error)
                  /\ UNCHANGED <<timestamp, last_ts>>
             ELSE /\ IF current_timestamp(v).ts < current_ts[t]
                     THEN /\ pc' = [pc EXCEPT ![t] = "clock"]
                          /\ timestamp' = [timestamp EXCEPT ![t] = 0]
                          /\ last_ts' = [last_ts EXCEPT ![t] = 0]
                     ELSE UNCHANGED <<pc, timestamp, last_ts>>
                  /\ UNCHANGED <<ret, api, hist>>
    /\ UNCHANGED <<gen, current_ts, calls, probe>>

\* Lines 186-194 and 103-104 under the advancing clock.
WaitNextMillisAdvancing(t) ==
    /\ pc[t] = "wait"
    /\ \E v \in AdvancingValues(current_ts[t] + 1) :
          /\ Report(v)
          /\ IF current_timestamp(v).tag = "Err"
             THEN /\ ReturnErr(t, current_timestamp(v).error)
                  /\ UNCHANGED <<timestamp, last_ts>>
             ELSE /\ IF current_timestamp(v).ts > current_ts[t]
                     THEN /\ pc' = [pc EXCEPT ![t] = "clock"]
                          /\ timestamp' = [timestamp EXCEPT ![t] = 0]
                          /\ last_ts' = [last_ts EXCEPT ![t] = 0]
                     ELSE UNCHANGED <<pc, timestamp, last_ts>>
                  /\ UNCHANGED <<ret, api, hist>>
    /\ UNCHANGED <<gen, current_ts, calls, probe>>

\* Lines 97-103 under the advancing clock, where a call overruns the sequence
\* at most once per new value of last_timestamp: the cell is followed as far
\* as it goes.
FetchAddSequenceAdvancing(t) ==
    /\ pc[t] = "fetch_add"
    /\ gen' = [gen EXCEPT !.sequence = @ + 1]
    /\ IF gen.sequence <= gen.max_sequence
       THEN ReturnOk(t, timestamp[t], gen.sequence)
       ELSE /\ pc' = [pc EXCEPT ![t] = "wait"]
            /\ current_ts' = [current_ts EXCEPT ![t] = timestamp[t]]
            /\ UNCHANGED <<timestamp, last_ts, ret, api, hist>>
    /\ UNCHANGED <<clock, calls, probe>>

\* A step of thread t's call in progress, once it is scheduled.
Run(t) ==
    \/ ReadClockAdvancing(t)
    \/ LoadLastTimestamp(t)
    \/ FetchAddSequenceAdvancing(t)
    \/ WaitNextMillisAdvancing(t)
    \/ CompareExchange(t)
    \/ StoreSequence(t)

\* The callers invoke next_id, LiveCalls times in all.
NextAdvancing ==
    \E t \in Threads :
        \/ CallNextId(t) /\ calls' <= LiveCalls
        \/ Run(t)

\* Every thread is scheduled fairly, and the clock keeps advancing: a step
\* that changes the state stays possible for a call in progress (a spinning
\* wait_next_millis changes the state when the clock reports a later value),
\* and is eventually taken.
SpecAdvancing ==
    /\ Init
    /\ [][NextAdvancing]_vars
    /\ \A t \in Threads : WF_vars(Run(t))

\* ------------------------------------------------------------ two instances
\* Two generators built with the same epoch and widths and with distinct
\* worker_ids that fit, each called by its own thread.  A method runs on the
\* instance it is called on (&self), so one struct is all an action reads and
\* writes: `gen` holds the instance of the thread that is running, `probe`
\* keeps the other thread's instance, and Switch hands the processor from one
\* thread to the other, exchanging the two.
InitPair ==
    /\ \E wa \in 0..(Pow2(WorkerBits) - 1), wb \in 0..(Pow2(WorkerBits) - 1) :
          /\ wa < wb    \* distinct; the two threads are interchangeable
          /\ gen = new(wa, Epoch, WorkerBits, SeqBits)
          /\ probe = [tag |-> "Instance", thread |-> "t2",
                      self |-> new(wb, Epoch, WorkerBits, SeqBits)]
    /\ InitCallers

\* Thread t's instance is the one in `gen`.
Runs(t) == probe.thread # t

Switch ==
    /\ gen' = probe.self
    /\ probe' = [probe EXCEPT !.self = gen,
                              !.thread = CHOOSE u \in Threads : u # probe.thread]
    /\ UNCHANGED <<clock, pc, locals, api, ret, hist, calls>>

NextPair ==
    \/ Switch
    \/ \E t \in Threads :
          /\ Runs(t)
          /\ \/ CallNextId(t) /\ calls' <= PairCalls
             \/ ReadClock(t)
             \/ LoadLastTimestamp(t)
             \/ FetchAddSequence(t)
             \/ WaitNextMillis(t)
             \/ CompareExchange(t)
             \/ StoreSequence(t)

SpecPair == InitPair /\ [][NextPair]_vars

\* ------------------------------------------------- the read-only operations
\* worker_id(), epoch() and decompose(id) are called on the generator while
\* next_id / next_ids calls are made and in progress (ReadCalls invocations
\* of next_id in all); `probe` keeps what the latest of them returned.
CallWorkerId ==
    /\ probe' = [tag |-> "worker_id", value |-> worker_id(gen)]
    /\ UNCHANGED <<gen, clock, pc, locals, api, ret, hist, calls>>

CallEpoch ==
    /\ probe' = [tag |-> "epoch", value |-> epoch(gen)]
    /\ UNCHANGED <<gen, clock, pc, locals, api, ret, hist, calls>>

\* decompose is given an ID the generator has returned.
CallDecompose ==
    /\ \E id \in IssuedIds :
          probe' = [tag |-> "decompose", id |-> id, value |-> decompose(gen, id)]
    /\ UNCHANGED <<gen, clock, pc, locals, api, ret, hist, calls>>

NextReading ==
    \/ Next /\ calls' <= ReadCalls
    \/ CallWorkerId
    \/ CallEpoch
    \/ CallDecompose

SpecReading == Init /\ [][NextReading]_vars

\* ------------------------------------------------- the bit layout on its own
\* compose_id and decompose are pure: SpecCodec constructs a generator from
\* arguments drawn from bounded sets (worker_id beyond its width included)
\* and applies compose_id to drawn fields, then decompose to its result.
Generators ==
    { new(w, e, wb, sb) : w \in 0..Pow2(WorkerBits), e \in {0, Epoch},
                          wb \in 1..WorkerBits, sb \in 1..SeqBits }

\* The configuration is valid: worker_id fits worker_bits.
ValidConfig(self) == self.worker_id < Pow2(self.worker_bits)

InitCodec ==
    /\ gen \in Generators
    /\ InitCallers
    /\ probe = NoProbe

\* compose_id(ts, seq) is evaluated on the generator.
Compose ==
    /\ probe.tag = "None"
    /\ \E ts \in gen.epoch..(gen.epoch + MaxTicks), seq \in 0..(gen.max_sequence + 1) :
          probe' = [tag |-> "Composed", timestamp |-> ts, sequence |-> seq,
                    id |-> compose_id(gen, ts, seq), parts |-> <<>>]
    /\ UNCHANGED <<gen, clock, pc, locals, api, ret, hist, calls>>

\* decompose is evaluated on the composed ID.
Decompose ==
    /\ probe.tag = "Composed"
    /\ probe' = [probe EXCEPT !.tag = "Decomposed",
                              !.parts = decompose(gen, probe.id)]
    /\ UNCHANGED <<gen, clock, pc, locals, api, ret, hist, calls>>

NextCodec == Compose \/ Decompose

SpecCodec == InitCodec /\ [][NextCodec]_vars

\* ------------------------------------------------------------------ callers
\* Thread t has called an entry point at some time.
Started(t) == pc[t] # "idle" \/ result[t].tag # "None"

\* No thread but t has ever called the generator: t is its single caller.
Solo(t) == \A u \in Threads \ {t} : ~Started(u)

\* A next_id invocation of t is in progress.
InCall(t) == pc[t] \in {"clock", "load", "fetch_add", "cas", "store", "wait"}

\* The step returns an ID from t's next_id invocation.
ReturnsId(t) == ret[t].tag = "None" /\ ret'[t].tag = "Ok"

\* The step fails t's next_id invocation.
ReturnsErr(t) == ret[t].tag = "None" /\ ret'[t].tag = "Err"

\* The sequence value t's returning step composes its ID from: the value its
\* fetch_add returned (line 97), or the 0 of the new millisecond (line 114).
TakenSequence(t) == IF pc[t] = "store" THEN 0 ELSE gen.sequence

\* The IDs issued for timestamp ts.
IssuedFor(ts) == {r \in issued : r.timestamp = ts}

\* The sequence values handed out for timestamp ts: those of the IDs issued
\* for it, and the 0 of a call whose compare_exchange to ts has succeeded and
\* which has not returned yet.
HandedOut(ts) ==
    {r.sequence : r \in IssuedFor(ts)}
        \cup {0 : b \in {u \in Threads : pc[u] = "store" /\ timestamp[u] = ts}}

\* ------------------------------------------------------------------- claims
\* The drawn fields fit the configured widths.
ValidFields ==
    /\ ValidConfig(gen)
    /\ probe.sequence \in 0..gen.max_sequence
    /\ probe.timestamp >= gen.epoch

\* C1: for one generator and any number of concurrent callers, no two IDs
\* returned by next_id are equal.
C1_Uniqueness == ~collision

\* C2: an ID returned by next_id is strictly greater than every ID that had
\* been returned before that invocation began, whatever other threads do.
C2_HappensBeforeOrder ==
    [][\A t \in Threads : ReturnsId(t) => ret'[t].id > floor[t]]_vars

\* C3: with a single caller and a clock that never reports less than before,
\* every ID returned is strictly greater than the IDs returned before it, so
\* no ID is returned twice.
C3_LocalMonotonicity ==
    [][\A t \in Threads :
          (Solo(t) /\ ~regressed /\ ReturnsId(t))
              => /\ \A r \in issued : ret'[t].id > r.id
                 /\ ~collision']_vars

\* C3 witness: the single caller has been returned a second ID.
C3_Witness ==
    /\ Solo("t1")
    /\ ~regressed
    /\ ret["t1"].tag = "Ok"
    /\ Cardinality(issued) >= 2


\* C4: for fields that fit the configured widths, decompose of the composed
\* ID gives back exactly (timestamp, worker_id, sequence).
C4_RoundTrip ==
    (probe.tag = "Decomposed" /\ ValidFields)
        => probe.parts = <<probe.timestamp, worker_id(gen), probe.sequence>>

\* C4 witness: an ID with every field non-zero has been composed and
\* decomposed on a valid configuration.
C4_Witness ==
    /\ probe.tag = "Decomposed"
    /\ ValidFields
    /\ probe.timestamp > gen.epoch
    /\ gen.epoch > 0
    /\ gen.worker_id > 0
    /\ probe.sequence > 0

\* C5: a next_id call that has read a clock value below the last_timestamp it
\* then loads fails with ClockMovedBackwards in that very step: no ID is
\* returned or issued, nothing is written, and the call does not start over.
C5_ClockRegression ==
    [][\A t \in Threads :
          (pc[t] = "load" /\ pc'[t] # "load"
              /\ timestamp[t] < gen.last_timestamp)
              => /\ ret'[t] = ErrRet
                 /\ result'[t] = ErrResult
                 /\ pc'[t] = "idle"
                 /\ issued' = issued
                 /\ gen' = gen]_vars

\* C5 witness: a call has failed on a timestamp below the last_timestamp it
\* loaded.
C5_Witness ==
    \E t \in Threads :
        /\ ret[t].tag = "Err"
        /\ pc[t] = "idle"
        /\ timestamp[t] > 0
        /\ timestamp[t] < last_ts[t]

\* C6: when a next_id call of a single caller fails, last_timestamp and
\* sequence hold the values they had when the call was invoked.
C6_NoPartialError ==
    [][\A t \in Threads :
          (Solo(t) /\ ReturnsErr(t))
              => <<gen'.last_timestamp, gen'.sequence>> = entry[t]]_vars

\* C7: while the clock has never reported less than it had reported before,
\* no next_id call has failed.
C7_ErrorOnlyOnRegression ==
    \A t \in Threads : ret[t].tag = "Err" => regressed

\* C8: with a single caller and a clock that never reports less than before:
\* (a) once max_sequence + 1 IDs are issued for a timestamp, a call in
\* progress stays in progress as long as the clock reports that timestamp;
\* (b) a call that has waited for the millisecond after current_ts returns an
\* ID whose timestamp is the later one the clock reported and whose sequence
\* is 0; (c) no ID is issued twice, and every issued ID carries a sequence
\* within 0..max_sequence and decomposes to the fields it was issued for.
C8_SequenceRollover ==
    /\ [][\A t \in Threads :
             (/\ Solo(t) /\ ~regressed' /\ InCall(t)
              /\ Cardinality(IssuedFor(now')) = gen.max_sequence + 1)
                 => pc'[t] \in {"clock", "load", "fetch_add", "wait"}]_vars
    /\ [][\A t \in Threads :
             (Solo(t) /\ ~regressed /\ ReturnsId(t) /\ current_ts[t] # 0)
                 => /\ decompose(gen, ret'[t].id)[1] > current_ts[t]
                    /\ decompose(gen, ret'[t].id)[1] = now
                    /\ decompose(gen, ret'[t].id)[3] = 0]_vars
    /\ [](\A t \in Threads :
             (Solo(t) /\ ~regressed)
                 => /\ ~collision
                    /\ \A r \in issued :
                          /\ r.sequence \in 0..gen.max_sequence
                          /\ decompose(gen, r.id)
                                = <<r.timestamp, gen.worker_id, r.sequence>>)

\* C8 witness: the single caller's call found the sequence exhausted, waited
\* for the next millisecond and returned an ID.
C8_Witness ==
    /\ Solo("t1")
    /\ ~regressed
    /\ ret["t1"].tag = "Ok"
    /\ current_ts["t1"] # 0
    /\ Cardinality(IssuedFor(current_ts["t1"])) = gen.max_sequence + 1

\* C9: the two cells are written one after the other.  A successful
\* compare_exchange installs the new timestamp and leaves sequence as it
\* was; and while thread a stands between that exchange and its store of 1, a
\* thread b whose fetch_add returns an ID for the same timestamp is handed
\* the value found in the not yet reset sequence cell, a still standing
\* before its store.
C9_RaceWindow ==
    /\ [][\A a \in Threads :
             (pc[a] = "cas" /\ pc'[a] = "store")
                 => /\ gen'.last_timestamp = timestamp[a]
                    /\ gen'.sequence = gen.sequence]_vars
    /\ [][\A a \in Threads : \A b \in Threads \ {a} :
             (/\ pc[a] = "store" /\ pc[b] = "fetch_add"
              /\ timestamp[b] = timestamp[a] /\ ReturnsId(b))
                 => /\ ret'[b].id = compose_id(gen, timestamp[a], gen.sequence)
                    /\ gen'.sequence = gen.sequence + 1
                    /\ pc'[a] = "store"]_vars

\* C9 witness: thread a has installed its timestamp and not yet stored 1,
\* and thread b has already been returned an ID for that timestamp, built
\* from the value it found in the sequence cell.
C9_Witness ==
    \E a \in Threads : \E b \in Threads \ {a} :
        /\ pc[a] = "store"
        /\ gen.last_timestamp = timestamp[a]
        /\ ret[b].tag = "Ok"
        /\ decompose(gen, ret[b].id)[1] = timestamp[a]
        /\ decompose(gen, ret[b].id)[3] = gen.sequence - 1

\* C10: next_ids(count) invokes next_id at most count times, one after the
\* other.  Its invocation changes nothing (count = 0 included); every ID
\* next_id returns is pushed behind those before it; when count IDs are
\* collected it returns exactly them, in that order; when a next_id fails it
\* returns that error and no ID, while the IDs collected so far stay issued
\* and the generator keeps what the earlier invocations did to it.
C10_AllOrNothing ==
    /\ [][\A t \in Threads :
             /\ (pc[t] = "idle" /\ pc'[t] = "loop")
                    => (gen' = gen /\ issued' = issued /\ ids'[t] = <<>>)
             /\ (pc[t] = "loop" /\ pc'[t] = "clock")
                    => Len(ids[t]) < count[t]
             /\ (pc[t] = "loop" /\ pc'[t] = "idle")
                    => /\ result'[t] = OkResult(ids[t])
                       /\ Len(ids[t]) = count[t]
                       /\ gen' = gen
                       /\ issued' = issued
             /\ (kind[t] = "next_ids" /\ ReturnsId(t))
                    => /\ ids'[t] = Append(ids[t], ret'[t].id)
                       /\ ret'[t].id \in IssuedIds'
                       /\ result'[t] = NoResult
                       /\ pc'[t] = "loop"
             /\ (kind[t] = "next_ids" /\ ReturnsErr(t))
                    => /\ result'[t] = ErrResult
                       /\ pc'[t] = "idle"
                       /\ \A i \in 1..Len(ids[t]) : ids[t][i] \in IssuedIds'
                       /\ gen' = gen]_vars
    /\ [](\A t \in Threads :
             /\ Len(ids[t]) <= count[t]
             /\ result[t].tag = "Err" => result[t].ids = <<>>)

\* C10 witness: the single caller's only call, next_ids(2), has collected one
\* ID and then failed: it returned the error, and the ID stays issued.
C10_Witness ==
    /\ Solo("t1")
    /\ calls = 2
    /\ kind["t1"] = "next_ids"
    /\ count["t1"] = 2
    /\ result["t1"] = ErrResult
    /\ pc["t1"] = "idle"
    /\ Cardinality(issued) = 1

\* C11: on a valid configuration, with the clock later than the epoch, every
\* ID next_id returns, in any interleaving, decomposes to the clock value the
\* call read (later than the epoch), the configured worker_id, and the
\* sequence value the call took, which lies within 0..max_sequence, below
\* 2^sequence_bits.
C11_ReturnedFields ==
    [][\A t \in Threads :
          (ValidConfig(gen) /\ timestamp[t] > epoch(gen) /\ ReturnsId(t))
              => /\ decompose(gen, ret'[t].id)
                       = <<timestamp[t], worker_id(gen), TakenSequence(t)>>
                 /\ TakenSequence(t) \in 0..gen.max_sequence
                 /\ TakenSequence(t) < Pow2(gen.sequence_bits)
                 /\ timestamp[t] \in ClockValues
                 /\ decompose(gen, ret'[t].id)[1] > epoch(gen)]_vars

\* C11 witness: with both threads calling, an ID carrying the greatest
\* sequence value has been returned for a clock value beyond the first.
C11_Witness ==
    /\ \A u \in Threads : Started(u)
    /\ \E t \in Threads :
          /\ ret[t].tag = "Ok"
          /\ decompose(gen, ret[t].id)
                = <<Epoch + MaxTicks, worker_id(gen), gen.max_sequence>>
          /\ [id |-> ret[t].id, timestamp |-> Epoch + MaxTicks,
              sequence |-> gen.max_sequence, worker |-> worker_id(gen)]
                \in issued

\* C12: with finitely many calls, every thread scheduled fairly and a clock
\* that keeps advancing, no next_id invocation and no entry-point call stays
\* in progress for ever: whenever a thread is in a call, it is later outside
\* every call, each next_id it invoked having returned an ID or failed.
C12_Termination ==
    \A t \in Threads :
        []<>(~InCall(t) /\ (Started(t) => ret[t].tag \in {"Ok", "Err"}))

\* C12 witness: with both threads calling, a call that found the sequence
\* exhausted and spun in wait_next_millis has returned an ID.
C12_Witness ==
    /\ \A u \in Threads : Started(u)
    /\ \E t \in Threads :
          /\ pc[t] = "idle"
          /\ ret[t].tag = "Ok"
          /\ current_ts[t] # 0
          /\ decompose(gen, ret[t].id)[1] > current_ts[t]

C14_InstancesDisjoint ==
    /\ [](\A r1 \in issued : \A r2 \in issued :
             r1.worker # r2.worker => r1.id # r2.id)
    /\ [][\A t \in Threads :
             (Runs(t) /\ probe'.thread = probe.thread)
                 => probe'.self = probe.self]_vars
    /\ [][probe'.thread # probe.thread
             => (gen' = probe.self /\ probe'.self = gen)]_vars

\* C14 witness: each of the two instances has returned an ID for the same
\* timestamp and the same sequence value.
C14_Witness ==
    \E r1 \in issued : \E r2 \in issued :
        /\ r1.worker # r2.worker
        /\ r1.timestamp = r2.timestamp
        /\ r1.sequence = r2.sequence
        /\ {r1.worker, r2.worker} = {gen.worker_id, probe.self.worker_id}

\* C15: new() accepts a worker_id of 2^worker_bits or more and stores it as
\* given; compose_id applies no mask to it, so for in-range timestamp and
\* sequence the bits of worker_id above worker_bits are OR-ed into the
\* timestamp field, and the ID decomposes to the low worker_bits bits of
\* worker_id, never to the configured worker_id: the round trip fails.
C15_UnvalidatedWorker ==
    (/\ probe.tag = "Decomposed"
     /\ ~ValidConfig(gen)
     /\ probe.sequence \in 0..gen.max_sequence
     /\ probe.timestamp >= gen.epoch)
        => /\ gen = new(gen.worker_id, gen.epoch, gen.worker_bits,
                        gen.sequence_bits)
           /\ probe.parts[1] - epoch(gen)
                 = BitOr(probe.timestamp - epoch(gen),
                         Shr(worker_id(gen), gen.worker_bits))
           /\ probe.parts[2] = BitAnd(worker_id(gen), Pow2(gen.worker_bits) - 1)
           /\ probe.parts[2] # worker_id(gen)
           /\ probe.parts[3] = probe.sequence
           /\ probe.parts # <<probe.timestamp, worker_id(gen), probe.sequence>>

\* C15 witness: on a generator whose worker_id exceeds its width, an ID has
\* been composed from in-range fields and decomposes to another timestamp
\* and another worker_id.
C15_Witness ==
    /\ probe.tag = "Decomposed"
    /\ ~ValidConfig(gen)
    /\ probe.sequence \in 0..gen.max_sequence
    /\ probe.timestamp >= gen.epoch
    /\ probe.parts[1] # probe.timestamp
    /\ probe.parts[2] # worker_id(gen)
    /\ probe.parts[2] # 0

\* C16: next_ids reserves no block and holds nothing between its next_id
\* invocations: invoking it, and entering or leaving its loop, change neither
\* cell of the generator; and while a batch stands between two invocations,
\* another thread's next_id returns the ID made of the clock value it read and
\* the sequence value it took, the batch staying as it is.
C16_BatchNotContiguous ==
    [][\A t \in Threads :
          /\ (pc[t] = "idle" /\ pc'[t] = "loop") => gen' = gen
          /\ (pc[t] = "loop" /\ pc'[t] # "loop") => gen' = gen
          /\ \A u \in Threads \ {t} :
                (/\ kind[t] = "next_ids" /\ pc[t] = "loop"
                 /\ 0 < Len(ids[t]) /\ Len(ids[t]) < count[t]
                 /\ ReturnsId(u))
                    => /\ ret'[u].id
                             = compose_id(gen, timestamp[u], TakenSequence(u))
                       /\ ids'[t] = ids[t]
                       /\ pc'[t] = "loop"]_vars

\* C16 witness: next_ids(2) has returned two IDs to one thread, and an ID
\* returned to the other thread lies strictly between them (the clock never
\* stepped back, and no ID was returned twice).
C16_Witness ==
    \E t \in Threads : \E u \in Threads \ {t} :
        /\ result[t].tag = "Ok"
        /\ Len(result[t].ids) = 2
        /\ ret[u].tag = "Ok"
        /\ result[t].ids[1] < ret[u].id
        /\ ret[u].id < result[t].ids[2]
        /\ ~regressed
        /\ ~collision

\* C17: whatever next_id / next_ids calls were made before, worker_id() and
\* epoch() return the values given to new(); and a call of worker_id(),
\* epoch() or decompose leaves last_timestamp and sequence (the whole
\* generator) as they were, as every step leaves the configuration fields.
C17_ReadOnlyPure ==
    /\ [](/\ probe.tag = "worker_id" => probe.value = Pow2(WorkerBits) - 1
          /\ probe.tag = "epoch" => probe.value = Epoch)
    /\ [][probe' # probe
             => /\ gen'.last_timestamp = gen.last_timestamp
                /\ gen'.sequence = gen.sequence
                /\ gen' = gen]_vars
    /\ [][/\ gen'.worker_id = gen.worker_id
          /\ gen'.epoch = gen.epoch
          /\ gen'.worker_bits = gen.worker_bits
          /\ gen'.sequence_bits = gen.sequence_bits
          /\ gen'.max_sequence = gen.max_sequence]_vars

\* C17 witness: worker_id() has been called after next_id had returned IDs
\* for two timestamps and moved both cells.
C17_Witness ==
    /\ probe.tag = "worker_id"
    /\ gen.sequence > 0
    /\ gen.last_timestamp = Epoch + MaxTicks
    /\ \E r \in issued : r.timestamp < gen.last_timestamp

\* C18: a call reaches the compare_exchange only with a clock value above
\* the last_timestamp it loaded.  When the exchange succeeds, last_timestamp
\* was the loaded value and becomes the clock value, for which no ID has been
\* issued and no other call stands after a successful exchange (at most one
\* exchange succeeds per timestamp); the call then stores 1 into sequence
\* and returns the ID for (timestamp, 0).  When the exchange fails, neither
\* cell changes, nothing is returned and the call is back at the clock read.
C18_NewMillisecond ==
    /\ [](\A a \in Threads :
             pc[a] \in {"cas", "store"} => timestamp[a] > last_ts[a])
    /\ [][\A a \in Threads :
             /\ (pc[a] = "cas" /\ pc'[a] = "store")
                    => /\ gen.last_timestamp = last_ts[a]
                       /\ gen'.last_timestamp = timestamp[a]
                       /\ IssuedFor(timestamp[a]) = {}
                       /\ \A b \in Threads \ {a} :
                             ~(pc[b] = "store" /\ timestamp[b] = timestamp[a])
             /\ (pc[a] = "store" /\ pc'[a] # "store")
                    => /\ gen'.sequence = 1
                       /\ gen'.last_timestamp = gen.last_timestamp
                       /\ ret'[a] = OkRet(compose_id(gen, timestamp[a], 0))
             /\ (pc[a] = "cas" /\ pc'[a] \notin {"cas", "store"})
                    => /\ gen.last_timestamp # last_ts[a]
                       /\ gen' = gen
                       /\ ret'[a] = NoRet
                       /\ issued' = issued
                       /\ pc'[a] = "clock"]_vars

\* C18 witness: one call's exchange has succeeded and it has stored 1 and
\* returned the ID for (timestamp, 0), while the other call, which loaded the
\* earlier last_timestamp, stands before an exchange that will fail.
C18_Witness ==
    \E a \in Threads : \E b \in Threads \ {a} :
        /\ pc[a] = "idle"
        /\ ret[a].tag = "Ok"
        /\ decompose(gen, ret[a].id) = <<gen.last_timestamp, worker_id(gen), 0>>
        /\ gen.sequence = 1
        /\ pc[b] = "cas"
        /\ last_ts[b] # gen.last_timestamp

\* C19: last_timestamp is 0 in a new generator and no step decreases it,
\* whatever the clock reports and however the calls interleave; and when a
\* call returns an ID, the ID's timestamp is at most the last_timestamp of
\* that moment.
C19_LastTimestampMonotone ==
    /\ gen.last_timestamp = 0
    /\ [][gen'.last_timestamp >= gen.last_timestamp]_vars
    /\ [][\A t \in Threads :
             ReturnsId(t)
                 => /\ decompose(gen, ret'[t].id)[1] <= gen'.last_timestamp
                    /\ timestamp[t] <= gen'.last_timestamp]_vars

\* C19 witness: the clock has stepped back after last_timestamp reached the
\* latest millisecond, last_timestamp has stayed there, and IDs have been
\* returned for it and for an earlier millisecond.
C19_Witness ==
    /\ regressed
    /\ now < gen.last_timestamp
    /\ now > 0
    /\ gen.last_timestamp = Epoch + MaxTicks
    /\ IssuedFor(Epoch + MaxTicks) # {}
    /\ IssuedFor(Epoch + 1) # {}

\* C20: in every state in which no next_id call is in progress, every ID
\* issued for the timestamp in last_timestamp carries a sequence value
\* strictly below the value of the sequence cell.
C20_SequenceCellFresh ==
    (\A t \in Threads : ~InCall(t))
        => \A r \in IssuedFor(gen.last_timestamp) : r.sequence < gen.sequence

\* C21: on a valid configuration, for in-range fields, compose_id is
\* strictly increasing in (timestamp, sequence) taken lexicographically, and
\* a composed ID is never negative, and is positive when the timestamp is
\* later than the epoch.
C21_ComposeOrder ==
    (probe.tag = "Composed" /\ ValidFields)
        => /\ probe.id = compose_id(gen, probe.timestamp, probe.sequence)
           /\ probe.id >= 0
           /\ probe.timestamp > epoch(gen) => probe.id > 0
           /\ \A ts \in gen.epoch..(gen.epoch + MaxTicks) :
                 \A seq \in 0..gen.max_sequence :
                    (\/ probe.timestamp < ts
                     \/ probe.timestamp = ts /\ probe.sequence < seq)
                        => probe.id < compose_id(gen, ts, seq)

\* C21 witness: on a valid configuration with a non-zero worker_id, the ID
\* of a timestamp later than the epoch with the greatest sequence value has
\* been composed, and a later timestamp with a smaller sequence is in range.
C21_Witness ==
    /\ probe.tag = "Composed"
    /\ ValidFields
    /\ worker_id(gen) > 0
    /\ probe.timestamp > epoch(gen)
    /\ probe.timestamp < epoch(gen) + MaxTicks
    /\ probe.sequence = gen.max_sequence

\* C22: whenever a next_id call that read timestamp t goes to wait for the
\* next millisecond, every sequence value 0..max_sequence has been handed
\* out for t.
C22_WaitOnlyWhenExhausted ==
    [][\A t \in Threads :
          (pc[t] = "fetch_add" /\ pc'[t] = "wait")
              => \A seq \in 0..gen.max_sequence :
                    seq \in HandedOut(timestamp[t])]_vars

====
